---------------------------- MODULE Spec2Model ----------------------------
(***************************************************************************)
(* State-machine model of NNet1D (src/nnet1d/nnet1d.py): network assembly, *)
(* build, batched training with the momentum update rule, test error and   *)
(* inference.                                                              *)
(*                                                                         *)
(* Tensors are abstracted to scalars: every layer owns two trainable       *)
(* parameters (W, b), each one exact rational number <<num, den>>; the     *)
(* update rule of gradient_updates_momentum is elementwise, so one element *)
(* per parameter shows it.  Python's 0-based tuple indices are kept via    *)
(* Idx(t, k).                                                              *)
(***************************************************************************)
EXTENDS Integers, Sequences, FiniteSets, TLC

(***************************************************************************)
(* Bounds of the model.                                                    *)
(***************************************************************************)
MaxLayers == 2      \* layers appended to one network
MaxLen    == 3      \* largest input width n_in of the assembly runs
MaxEpochs == 2      \* train() calls made on one network
MaxRows   == 4      \* rows of the training partition
MaxBatch  == 2      \* largest batch_size

(***************************************************************************)
(* Exact rational arithmetic (the floats of the program, without rounding).*)
(***************************************************************************)
RECURSIVE GCD(_, _)
GCD(a, b) == IF b = 0 THEN a ELSE GCD(b, a % b)

IAbs(n) == IF n < 0 THEN -n ELSE n

Norm(n, d) ==
    LET g == GCD(IAbs(n), IAbs(d))
        s == IF d < 0 THEN -1 ELSE 1
    IN  <<s * (n \div g), s * (d \div g)>>

R(n) == <<n, 1>>
\* sums over the least common denominator
RAddOver(a, b, g) ==
    Norm(a[1] * (b[2] \div g) + b[1] * (a[2] \div g), (a[2] \div g) * b[2])
RAdd(a, b) == RAddOver(a, b, GCD(a[2], b[2]))
RSub(a, b) == RAdd(a, <<-b[1], b[2]>>)
RMul(a, b) == Norm(a[1] * b[1], a[2] * b[2])
RDivInt(a, k) == Norm(a[1], a[2] * k)
RAbs(a) == <<IAbs(a[1]), a[2]>>
RSgn(a) == R(IF a[1] > 0 THEN 1 ELSE IF a[1] < 0 THEN -1 ELSE 0)

RECURSIVE RSum(_)
RSum(s) == IF s = <<>> THEN R(0) ELSE RAdd(Head(s), RSum(Tail(s)))

NaN == <<0, 0>>

\* np.mean of a list of costs: sum / length, nan for the empty list
mean(s) == IF s = <<>> THEN NaN ELSE RDivInt(RSum(s), Len(s))

\* Python tuple indexing t[k], 0-based
Idx(t, k) == t[k + 1]

\* Python xrange(n) as a sequence 0, 1, ..., n-1
xrange(n) == [k \in 1..n |-> k - 1]

\* Python's None (where an integer may stand instead) and the outcome of a
\* call that raised nothing
None == -1
NoError == "none"

VARIABLES
    rng,              \* self.rng: state of the random stream
    batch_size, learning_rate, momentum, cost_fn,
    n_rows,           \* row count of the train / valid / test partition
    n_in, n_out,
    n_train_batches, n_valid_batches, n_test_batches,
    layers,           \* self.layers
    params,           \* the trainable parameters of all layers, in layer order
    built,            \* build() has completed: the compiled procedures exist
    compiled,         \* number of layers the compiled procedures were built from
    velocities,       \* the param_update accumulators made by build()
    epochs, train_errors, valid_errors,
    last,             \* the last public call: its name, outcome, result and
                      \* the procedure invocations it made
    trace,            \* every train-procedure invocation since the last build()
    trainCalls,       \* train() calls completed since the last build()
    trainTotal        \* train() calls completed since construction

cfgvars == <<batch_size, learning_rate, momentum, cost_fn, n_rows, n_in, n_out,
             n_train_batches, n_valid_batches, n_test_batches>>
netvars == <<rng, layers, params>>
runvars == <<built, compiled, velocities, epochs, train_errors, valid_errors>>
obsvars == <<trace, trainCalls, trainTotal>>
vars == <<cfgvars, netvars, runvars, last, obsvars>>

\* the record of a public call: arg is the argument as passed, arg_after the
\* caller's argument object when the call has returned
Call(op, err, ret, calls, arg, arg_after) ==
    [op |-> op, err |-> err, ret |-> ret, calls |-> calls, arg |-> arg,
     arg_after |-> arg_after]

(***************************************************************************)
(* NNet1D.__init__                                                         *)
(***************************************************************************)
n_batches_rounded_up(rows, bs) == (rows + bs - 1) \div bs

\* number of batches of a partition: Python 2 integer division
n_batches(rows, bs) == rows \div bs

__init__(seed, rows, width_in, width_out, bs, lr, mom, cf) ==
    /\ rng = seed
    /\ batch_size = bs
    /\ learning_rate = lr
    /\ momentum = mom
    /\ cost_fn = cf
    /\ layers = <<>>
    /\ params = <<>>
    /\ n_rows = rows
    /\ n_in = width_in
    /\ n_out = width_out
    /\ n_train_batches = n_batches(rows.train, bs)
    /\ n_valid_batches = n_batches(rows.valid, bs)
    /\ n_test_batches = n_batches(rows.test, bs)
    /\ built = FALSE
    /\ compiled = 0
    /\ velocities = <<>>
    /\ epochs = 0
    /\ train_errors = <<>>
    /\ valid_errors = <<>>
    /\ last = Call("__init__", NoError, None, <<>>, None, None)
    /\ trace = <<>>
    /\ trainCalls = 0
    /\ trainTotal = 0

(***************************************************************************)
(* The two layer variants (layers1d, imported at nnet1d.py:9).             *)
(***************************************************************************)
\* initial value of a weight drawn from the shared random stream
Draw(s) == R((s % 3) - 1)

ConvPoolLayer(input_length, bs, filters, filter_length, input_number, poolsize) ==
    [kind         |-> "ConvPoolLayer",
     input_length |-> input_length,
     input_number |-> input_number,
     poolsize     |-> poolsize,
     filter_shape |-> <<filters, input_number, 1, filter_length>>,
     output_shape |-> <<bs, filters, 1,
                        (input_length - filter_length + 1) \div poolsize>>]

FullyConnectedLayer(input_length, output_length, bs) ==
    [kind         |-> "FullyConnectedLayer",
     input_length |-> input_length,
     output_shape |-> output_length]

isinstance(layer, kind) == layer.kind = kind

\* self.layers[-1]
LastLayer == layers[Len(layers)]

Assign_layer(layer) ==
    /\ layers' = <<layer>>
    /\ params' = params \o <<Draw(rng), R(0)>>
    /\ rng' = rng + 1

\* appending a layer: its W (drawn from the stream) and b (zero) come with it
Append_layer(layer) ==
    /\ layers' = Append(layers, layer)
    /\ params' = params \o <<Draw(rng), R(0)>>
    /\ rng' = rng + 1

(***************************************************************************)
(* NNet1D.add_conv_pool_layer                                              *)
(***************************************************************************)
conv_input_number ==
    IF Len(layers) = 0 THEN 1
    ELSE IF isinstance(LastLayer, "ConvPoolLayer")
         THEN Idx(LastLayer.output_shape, 1)
         ELSE 1

conv_input_length_channels ==
    IF Len(layers) = 0 THEN n_in
    ELSE IF isinstance(LastLayer, "ConvPoolLayer")
         THEN Idx(LastLayer.output_shape, 1)
         ELSE LastLayer.output_shape

conv_input_length ==
    IF Len(layers) = 0 THEN n_in
    ELSE IF isinstance(LastLayer, "ConvPoolLayer")
         THEN Idx(LastLayer.output_shape, 3)
         ELSE LastLayer.output_shape

add_conv_pool_layer(filters, filter_length, poolsize) ==
    /\ Len(layers) < MaxLayers
    /\ Append_layer(ConvPoolLayer(conv_input_length, batch_size, filters,
                                  filter_length, conv_input_number, poolsize))
    /\ last' = Call("add_conv_pool_layer", NoError, None, <<>>,
                    <<filters, filter_length, poolsize>>,
                    <<filters, filter_length, poolsize>>)
    /\ UNCHANGED <<cfgvars, runvars, obsvars>>

(***************************************************************************)
(* NNet1D.add_fully_connected_layer                                        *)
(***************************************************************************)
fc_output_length(output_length) ==
    IF output_length = None THEN n_out ELSE output_length

fc_input_length_from_n_in ==
    IF Len(layers) = 0 THEN n_in
    ELSE IF isinstance(LastLayer, "ConvPoolLayer")
         THEN Idx(LastLayer.filter_shape, 1) * Idx(LastLayer.output_shape, 3)
         ELSE n_in

fc_input_length ==
    IF Len(layers) = 0 THEN n_in
    ELSE IF isinstance(LastLayer, "ConvPoolLayer")
         THEN Idx(LastLayer.filter_shape, 1) * Idx(LastLayer.output_shape, 3)
         ELSE LastLayer.output_shape

add_fully_connected_layer(output_length) ==
    /\ Len(layers) < MaxLayers
    /\ Append_layer(FullyConnectedLayer(fc_input_length,
                                        fc_output_length(output_length),
                                        batch_size))
    /\ last' = Call("add_fully_connected_layer", NoError, None, <<>>,
                    <<output_length>>, <<output_length>>)
    /\ UNCHANGED <<cfgvars, runvars, obsvars>>

(***************************************************************************)
(* The dataset (load_data) and the compiled graph.  Row r of a partition   *)
(* is summarised by one input value and one target value; the network      *)
(* computes, for a row, the row's input plus the sum of the parameters of  *)
(* the layers it was compiled from.                                        *)
(***************************************************************************)
PartOffset(part) ==
    CASE part = "train" -> 0 [] part = "valid" -> 1 [] part = "test" -> 2

DataX(part, r) == R(r + 1)
DataY(part, r) == R(2 * r + PartOffset(part))

\* the Python slice [lo:hi] of a partition with N rows: its row indices
Slice(N, lo, hi) ==
    LET top == IF hi < N THEN hi ELSE N
    IN  [k \in 1..(IF top > lo THEN top - lo ELSE 0) |-> lo + k - 1]

\* givens: rows i*batch_size .. (i+1)*batch_size - 1 of the partition
givens(part, i) == Slice(n_rows[part], i * batch_size, (i + 1) * batch_size)

\* the parameters the compiled procedures read and update
CompiledParams(P) == SubSeq(P, 1, 2 * compiled)

\* output of the last layer for one input row
NetOut(P, x) == RAdd(x, RSum(CompiledParams(P)))

abs_error_cost(ys, outs) ==
    mean([k \in 1..Len(ys) |-> RAbs(RSub(ys[k], outs[k]))])

\* self.cost on the rows of a batch: cost_fn(y, output)
cost(part, rows, P) ==
    LET ys   == [k \in 1..Len(rows) |-> DataY(part, rows[k])]
        outs == [k \in 1..Len(rows) |-> NetOut(P, DataX(part, rows[k]))]
    IN  abs_error_cost(ys, outs)

\* T.grad(self.cost, param): the same for each parameter, the network being
\* a sum of its parameters
grad(part, rows, P) ==
    LET d == [k \in 1..Len(rows) |->
                RSub(NetOut(P, DataX(part, rows[k])), DataY(part, rows[k]))]
    IN  mean([k \in 1..Len(rows) |-> RSgn(d[k])])

(***************************************************************************)
(* NNet1D.gradient_updates_momentum: the updates of one training step,     *)
(* all evaluated on the values held before the step.                       *)
(***************************************************************************)
param_step(p, v) == RSub(p, RMul(learning_rate, v))

velocity_step(v, g) ==
    RAdd(RMul(momentum, v), RMul(RSub(R(1), momentum), g))

gradient_updates_fresh_velocity(P, V, g) ==
    [P |-> [k \in 1..Len(P) |->
              IF k <= Len(V) THEN param_step(P[k], velocity_step(V[k], g))
              ELSE P[k]],
     V |-> [k \in 1..Len(V) |-> velocity_step(V[k], g)]]

gradient_updates_momentum(P, V, g) ==
    [P |-> [k \in 1..Len(P) |->
              IF k <= Len(V) THEN param_step(P[k], V[k]) ELSE P[k]],
     V |-> [k \in 1..Len(V) |-> velocity_step(V[k], g)]]

(***************************************************************************)
(* The compiled procedures.  Each returns the record of one invocation:    *)
(* the rows read, the cost returned, and the parameters and velocities     *)
(* before and after.                                                       *)
(***************************************************************************)
Invocation(proc, i, rows, c, g, P, V, P2, V2) ==
    [proc |-> proc, i |-> i, rows |-> rows, cost |-> c, g |-> g,
     pre_p |-> P, pre_v |-> V, post_p |-> P2, post_v |-> V2]

\* (the helper operators receive what the body of a procedure computes once)
train_invocation(i, rows, g, P, V, u) ==
    Invocation("train_model", i, rows, cost("train", rows, P), g,
               P, V, u.P, u.V)

train_updates(i, rows, g, P, V) ==
    train_invocation(i, rows, g, P, V, gradient_updates_momentum(P, V, g))

train_on(i, rows, P, V) ==
    train_updates(i, rows, grad("train", rows, P), P, V)

train_model(i, P, V) == train_on(i, givens("train", i), P, V)

eval_with_updates(proc, part, i, rows, P, V) ==
    train_updates(i, rows, grad(part, rows, P), P, V)

eval_on(proc, part, i, rows, P, V) ==
    Invocation(proc, i, rows, cost(part, rows, P), None, P, V, P, V)

validate_model(i, P, V) ==
    eval_on("validate_model", "valid", i, givens("valid", i), P, V)

test_model(i, P, V) ==
    eval_on("test_model", "test", i, givens("test", i), P, V)

\* the inference procedure on a matrix x (a sequence of rows)
output_function(x, P, V) ==
    [proc |-> "output_function", input |-> x,
     out |-> [k \in 1..Len(x) |->
                NetOut(P, RSum([c \in 1..Len(x[k]) |-> R(x[k][c])]))],
     pre_p |-> P, pre_v |-> V, post_p |-> P, post_v |-> V]

\* [proc(i) for i in idxs], run one after the other on the live parameters
Invoke(proc, i, P, V) ==
    CASE proc = "train_model" -> train_model(i, P, V)
      [] proc = "validate_model" -> validate_model(i, P, V)
      [] proc = "test_model" -> test_model(i, P, V)

RECURSIVE RunAll(_, _, _, _)
RECURSIVE RunRest(_, _, _)
RunAll(proc, idxs, P, V) ==
    IF idxs = <<>> THEN <<>>
    ELSE RunRest(proc, Tail(idxs), Invoke(proc, Head(idxs), P, V))

RunRest(proc, idxs, inv) ==
    <<inv>> \o RunAll(proc, idxs, inv.post_p, inv.post_v)

Costs(invs) == [k \in 1..Len(invs) |-> invs[k].cost]

\* parameters / velocities after a run of invocations
FinalP(invs, P) == IF invs = <<>> THEN P ELSE invs[Len(invs)].post_p
FinalV(invs, V) == IF invs = <<>> THEN V ELSE invs[Len(invs)].post_v

(***************************************************************************)
(* NNet1D.build                                                            *)
(***************************************************************************)
build_error_no_size_check ==
    IF Len(layers) = 0 THEN "IndexError"
    ELSE IF ~isinstance(LastLayer, "FullyConnectedLayer") THEN "AssertionError"
    ELSE IF cost_fn = "relu" THEN "TypeError"
    ELSE NoError

build_error ==
    IF Len(layers) = 0 THEN "IndexError"
    ELSE IF ~isinstance(LastLayer, "FullyConnectedLayer") THEN "AssertionError"
    ELSE IF LastLayer.output_shape # n_out THEN "AssertionError"
    ELSE IF cost_fn = "relu" THEN "TypeError"
    ELSE NoError

build ==
    /\ last' = Call("build", build_error, None, <<>>, None, None)
    /\ IF build_error = NoError
       THEN /\ epochs' = 0
            /\ train_errors' = <<>>
            /\ valid_errors' = <<>>
            /\ velocities' = [k \in 1..Len(params) |-> R(0)]
            /\ compiled' = Len(layers)
            /\ built' = TRUE
            /\ trace' = <<>>
            /\ trainCalls' = 0
       ELSE UNCHANGED <<runvars, trace, trainCalls>>
    /\ UNCHANGED <<cfgvars, netvars, trainTotal>>

(***************************************************************************)
(* NNet1D.train                                                            *)
(***************************************************************************)
extend_costs(errors, costs) == errors \o costs

\* self.train_errors.append(np.mean(train_errors))
append_mean(errors, costs) == Append(errors, mean(costs))

train ==
    /\ built
    /\ trainTotal < MaxEpochs
    /\ \E t_invs \in {RunAll("train_model", xrange(n_train_batches),
                             params, velocities)} :
       \E v_invs \in {RunAll("validate_model", xrange(n_valid_batches),
                             FinalP(t_invs, params),
                             FinalV(t_invs, velocities))} :
           /\ epochs' = epochs + 1
           /\ train_errors' = append_mean(train_errors, Costs(t_invs))
           /\ valid_errors' = append_mean(valid_errors, Costs(v_invs))
           /\ params' = FinalP(v_invs, FinalP(t_invs, params))
           /\ velocities' = FinalV(v_invs, FinalV(t_invs, velocities))
           /\ last' = Call("train", NoError,
                           <<mean(Costs(t_invs)), mean(Costs(v_invs))>>,
                           t_invs \o v_invs, None, None)
           /\ trace' = trace \o t_invs
    /\ trainCalls' = trainCalls + 1
    /\ trainTotal' = trainTotal + 1
    /\ UNCHANGED <<cfgvars, rng, layers, built, compiled>>

(***************************************************************************)
(* NNet1D.test_error                                                       *)
(***************************************************************************)
test_error ==
    /\ built
    /\ \E invs \in {RunAll("test_model", xrange(n_test_batches),
                           params, velocities)} :
           /\ params' = FinalP(invs, params)
           /\ velocities' = FinalV(invs, velocities)
           /\ last' = Call("test_error", NoError, mean(Costs(invs)), invs,
                           None, None)
    /\ UNCHANGED <<cfgvars, rng, layers, built, compiled, epochs,
                   train_errors, valid_errors, obsvars>>

(***************************************************************************)
(* NNet1D.output                                                           *)
(***************************************************************************)
\* the elements of a matrix in row-major order
RECURSIVE Flat(_)
Flat(x) == IF x = <<>> THEN <<>> ELSE Head(x) \o Flat(Tail(x))

\* ndarray.resize(rows, cols): the flat data cut or zero-padded to rows*cols
\* elements and laid out again
resize(x, rows, cols) ==
    LET f == Flat(x)
    IN  [r \in 1..rows |->
           [c \in 1..cols |->
              LET k == (r - 1) * cols + c
              IN  IF k <= Len(f) THEN f[k] ELSE 0]]

\* Python slice s[:n]
Take(s, n) == SubSeq(s, 1, IF n < Len(s) THEN n ELSE Len(s))

\* the body of output: the value returned, the inference invocation, and the
\* caller's array afterwards (the resize acts on the copy made by np.copy)
output_result_untruncated(x, x_size, inv) ==
    [ret |-> inv.out, inv |-> inv, caller_x |-> x]

output_result(x, x_size, inv) ==
    [ret |-> Take(inv.out, x_size), inv |-> inv, caller_x |-> x]

output_body(x) ==
    output_result(x, Len(x),
                  output_function(resize(x, batch_size, n_in),
                                  params, velocities))

output(x) ==
    /\ built
    /\ \E b \in {output_body(x)} :
           /\ params' = b.inv.post_p
           /\ velocities' = b.inv.post_v
           /\ last' = Call("output", NoError, b.ret, <<b.inv>>, x, b.caller_x)
    /\ UNCHANGED <<cfgvars, rng, layers, built, compiled, epochs,
                   train_errors, valid_errors, obsvars>>

(***************************************************************************)
(* Inputs of the runs.                                                     *)
(***************************************************************************)
Half == <<1, 2>>

Filters       == {1, 2}
FilterLengths == {1, 2}
PoolSizes     == {1, 2}
OutLengths    == {None, 2, 5}
NOut          == {2, 3}

\* matrices with the given row counts, each row one of rows
Matrices(rowcounts, rows) == UNION {[1..r -> rows] : r \in rowcounts}

Rows(nt, nv, ns) == [train |-> nt, valid |-> nv, test |-> ns]

(***************************************************************************)
(* Spec: network assembly over all layer chains, on one small dataset.     *)
(***************************************************************************)
Init ==
    \E width_in \in 1..MaxLen, width_out \in NOut,
       cf \in {"abs_error_cost", "relu"} :
        __init__(0, Rows(2, 1, 1), width_in, width_out, 1, Half, Half, cf)

Next ==
    \/ \E filters \in Filters, filter_length \in FilterLengths,
          poolsize \in PoolSizes :
            add_conv_pool_layer(filters, filter_length, poolsize)
    \/ \E output_length \in OutLengths :
            add_fully_connected_layer(output_length)
    \/ build
    \/ train
    \/ test_error
    \/ output(<<[c \in 1..n_in |-> 1]>>)

Spec == Init /\ [][Next]_vars

(***************************************************************************)
(* SpecTrain: training over datasets of all sizes, batch sizes and         *)
(* hyperparameters, on networks of fully-connected layers.                 *)
(***************************************************************************)
InitTrain ==
    \E bs \in 1..MaxBatch, nt \in 0..MaxRows, nv \in {0, 1, 3},
       lr \in {Half, R(1)}, mom \in {R(0), Half} :
        __init__(1, Rows(nt, nv, 3), 2, 1, bs, lr, mom, "abs_error_cost")

NextTrain ==
    \/ add_fully_connected_layer(None)
    \/ build
    \/ train
    \/ test_error
    \/ output(<<<<1, 2>>>>)

SpecTrain == InitTrain /\ [][NextTrain]_vars

(***************************************************************************)
(* SpecOutput: inference on inputs of every row count up to one more than  *)
(* the batch size.                                                         *)
(***************************************************************************)
InitOutput ==
    \E bs \in 1..MaxBatch, lr \in {Half, R(1)} :
        __init__(1, Rows(2, 1, 1), 2, 1, bs, lr, Half, "abs_error_cost")

NextOutput ==
    \/ add_fully_connected_layer(None)
    \/ build
    \/ train
    \/ test_error
    \/ \E x \in Matrices(0..(batch_size + 1), {<<1, 2>>, <<2, 1>>}) : output(x)

SpecOutput == InitOutput /\ [][NextOutput]_vars

(***************************************************************************)
(* Properties.                                                             *)
(***************************************************************************)
IsConv(k) == isinstance(layers[k], "ConvPoolLayer")
IsFC(k) == isinstance(layers[k], "FullyConnectedLayer")

\* the build precondition on the last layer
LastLayerFits ==
    IF isinstance(LastLayer, "FullyConnectedLayer")
    THEN LastLayer.output_shape = n_out
    ELSE FALSE

\* C1: a build() on a network whose last layer is not fully-connected, or
\* whose last layer's output length differs from n_out, ends in an assertion
\* error (and in no other case does it); a build() that completes (resets the
\* epoch state and compiles from all the layers) had a fitting last layer.
C1_BuildAssertion ==
    (last.op = "build" /\ Len(layers) > 0) =>
        /\ (last.err = "AssertionError") <=> ~LastLayerFits
        /\ last.err = NoError =>
              /\ LastLayerFits
              /\ built /\ compiled = Len(layers) /\ epochs = 0
              /\ Len(velocities) = Len(params)

C1_Witness ==
    /\ last.op = "build"
    /\ last.err = "AssertionError"
    /\ n_out = 3
    /\ Len(layers) > 0
    /\ IsFC(Len(layers))
    /\ LastLayer.output_shape = 2

\* the formula of the conv/pool output length
PooledLength(input_length, filter_length, poolsize) ==
    (input_length - filter_length + 1) \div poolsize

FilterLength(k) == Idx(layers[k].filter_shape, 3)

\* the formula composed over the first k layers, from n_in
RECURSIVE ChainLength(_)
ChainLength(k) ==
    IF k = 0 THEN n_in
    ELSE PooledLength(ChainLength(k - 1), FilterLength(k), layers[k].poolsize)

\* C6: a conv/pool layer with filter_length <= input_length has output length
\* floor((input_length - filter_length + 1) / pool_size); a conv/pool layer
\* takes its input length and channel count from a conv/pool predecessor's
\* output length and filter count (n_in and 1 when first); a chain of conv/pool
\* layers ends with the formula composed once per layer.
C6_ConvLength ==
    \A k \in 1..Len(layers) :
        IsConv(k) =>
            /\ FilterLength(k) <= layers[k].input_length =>
                  Idx(layers[k].output_shape, 3) =
                      PooledLength(layers[k].input_length, FilterLength(k),
                                   layers[k].poolsize)
            /\ k = 1 => /\ layers[k].input_length = n_in
                        /\ layers[k].input_number = 1
            /\ (k > 1 /\ IsConv(k - 1)) =>
                  /\ layers[k].input_length =
                         Idx(layers[k - 1].output_shape, 3)
                  /\ layers[k].input_number =
                         Idx(layers[k - 1].filter_shape, 0)
            /\ (\A j \in 1..k : /\ IsConv(j)
                               /\ FilterLength(j) <= layers[j].input_length) =>
                  Idx(layers[k].output_shape, 3) = ChainLength(k)

C6_Witness ==
    /\ Len(layers) = 2
    /\ IsConv(1) /\ IsConv(2)
    /\ n_in = 3
    /\ FilterLength(1) = 1 /\ layers[1].poolsize = 2
    /\ Idx(layers[1].filter_shape, 0) = 2
    /\ FilterLength(2) = 1 /\ layers[2].poolsize = 1
    /\ Idx(layers[2].output_shape, 3) = 1
    /\ layers[2].input_number = 2

\* C7: a layer appended right after a fully-connected layer has that layer's
\* output length as its input length (and one input channel if it is a
\* conv/pool layer); a first layer has input length n_in; a fully-connected
\* layer added without output_length has output length n_out.
C7_ShapePropagation ==
    /\ \A k \in 1..Len(layers) :
          /\ k = 1 => layers[k].input_length = n_in
          /\ (k > 1 /\ IsFC(k - 1)) =>
                /\ layers[k].input_length = layers[k - 1].output_shape
                /\ IsConv(k) => layers[k].input_number = 1
    /\ (last.op = "add_fully_connected_layer" /\ last.arg = <<None>>) =>
          LastLayer.output_shape = n_out

C7_Witness ==
    /\ Len(layers) = 2
    /\ IsFC(1) /\ layers[1].output_shape = 5
    /\ IsFC(2) /\ layers[2].input_length = 5
    /\ last.op = "add_fully_connected_layer" /\ last.arg = <<None>>
    /\ layers[2].output_shape = n_out

\* a step that appends exactly one layer at the end
AppendsOneLayer ==
    /\ Len(layers') = Len(layers) + 1
    /\ SubSeq(layers', 1, Len(layers)) = layers

AddOps == {"add_conv_pool_layer", "add_fully_connected_layer"}

\* C8 (as stated): before build() a step leaves the layers unchanged or appends
\* one layer at the end; once build() has completed no step changes the layers.
C8_FrozenAfterBuild ==
    [][/\ ~built => (layers' = layers \/ AppendsOneLayer)
       /\ built => layers' = layers]_vars

\* C8 (amended): every step, before or after build(), leaves the layers
\* unchanged or appends one layer at the end; only the two add operations
\* append, and they do so after build() as well.
C8_AppendOnly ==
    [][/\ layers' = layers \/ AppendsOneLayer
       /\ last'.op \in AddOps => AppendsOneLayer
       /\ last'.op \notin AddOps => layers' = layers]_vars

C8_Witness ==
    /\ built
    /\ last.op \in AddOps
    /\ Len(layers) = compiled + 1

\* C9: a fully-connected layer appended after a conv/pool layer has as input
\* length the predecessor's filter count times its pooled output length.
C9_FlattenedLength ==
    \A k \in 2..Len(layers) :
        (IsFC(k) /\ IsConv(k - 1)) =>
            layers[k].input_length =
                Idx(layers[k - 1].output_shape, 1)
                    * Idx(layers[k - 1].output_shape, 3)

IsPrefix(s, t) == Len(s) <= Len(t) /\ SubSeq(t, 1, Len(s)) = s

\* C2: after build(), the epoch counter, the lengths of both histories and the
\* number of train() calls made since build() are equal; a train() call
\* appends one entry to each history and keeps the earlier entries, and no
\* other call but build() touches the histories.
C2_EpochHistory ==
    /\ [](built => /\ epochs = Len(train_errors)
                   /\ epochs = Len(valid_errors)
                   /\ epochs = trainCalls)
    /\ [][(built /\ last'.op # "build") =>
            /\ IsPrefix(train_errors, train_errors')
            /\ IsPrefix(valid_errors, valid_errors')
            /\ last'.op = "train" =>
                  /\ Len(train_errors') = Len(train_errors) + 1
                  /\ Len(valid_errors') = Len(valid_errors) + 1
            /\ last'.op # "train" =>
                  /\ train_errors' = train_errors
                  /\ valid_errors' = valid_errors]_vars

C2_Witness ==
    /\ built
    /\ last.op = "train"
    /\ epochs = 2
    /\ Len(train_errors) = 2
    /\ n_train_batches = 2

\* C3: every training step sets each parameter to p - learning_rate * v with
\* the velocity v held before the step, and each velocity to
\* momentum * v + (1 - momentum) * g, g the gradient at the parameters held
\* before the step; velocities start at 0, so the first step leaves the
\* parameters as they were and leaves (1 - momentum) * g1 as velocity, and the
\* second step gives p1 - learning_rate * (1 - momentum) * g1.
C3_MomentumStep ==
    /\ \A k \in 1..Len(trace) :
          /\ trace[k].g = grad("train", trace[k].rows, trace[k].pre_p)
          /\ Len(trace[k].post_v) = Len(trace[k].pre_v)
          /\ \A j \in 1..Len(trace[k].pre_v) :
                /\ trace[k].post_p[j] =
                      RSub(trace[k].pre_p[j],
                           RMul(learning_rate, trace[k].pre_v[j]))
                /\ trace[k].post_v[j] =
                      RAdd(RMul(momentum, trace[k].pre_v[j]),
                           RMul(RSub(R(1), momentum), trace[k].g))
    /\ Len(trace) >= 1 =>
          \A j \in 1..Len(trace[1].pre_v) :
              /\ trace[1].pre_v[j] = R(0)
              /\ trace[1].post_p[j] = trace[1].pre_p[j]
              /\ trace[1].post_v[j] = RMul(RSub(R(1), momentum), trace[1].g)
    /\ Len(trace) >= 2 =>
          \A j \in 1..Len(trace[2].pre_v) :
              /\ trace[2].pre_p[j] = trace[1].post_p[j]
              /\ trace[2].post_p[j] =
                    RSub(trace[1].post_p[j],
                         RMul(learning_rate,
                              RMul(RSub(R(1), momentum), trace[1].g)))

C3_Witness ==
    /\ Len(trace) >= 2
    /\ Len(trace[1].pre_v) > 0
    /\ trace[1].g # R(0)
    /\ trace[2].g # trace[1].g
    /\ momentum = Half
    /\ trace[2].post_p[1] # trace[1].post_p[1]

\* the procedure invocations of the last call made by the given procedure
RECURSIVE CallsOf(_, _)
CallsOf(calls, proc) ==
    IF calls = <<>> THEN <<>>
    ELSE (IF Head(calls).proc = proc THEN <<Head(calls)>> ELSE <<>>)
             \o CallsOf(Tail(calls), proc)

\* C5: a train() call invokes the train procedure on the batch indices
\* 0 .. floor(N_train / batch_size) - 1 in increasing order and then the
\* validate procedure on 0 .. floor(N_valid / batch_size) - 1 in increasing
\* order; it returns, and appends to the histories, the means of exactly those
\* costs; every invocation reads batch_size rows, all below
\* floor(N / batch_size) * batch_size.
C5_BatchOrder ==
    last.op = "train" =>
        LET nT == n_rows.train \div batch_size
            nV == n_rows.valid \div batch_size
            tc == SubSeq(last.calls, 1, nT)
            vc == SubSeq(last.calls, nT + 1, nT + nV)
        IN  /\ Len(last.calls) = nT + nV
            /\ \A k \in 1..nT :
                  /\ tc[k].proc = "train_model"
                  /\ tc[k].i = k - 1
                  /\ Len(tc[k].rows) = batch_size
                  /\ \A r \in 1..Len(tc[k].rows) :
                        /\ tc[k].rows[r] = (k - 1) * batch_size + r - 1
                        /\ tc[k].rows[r] < nT * batch_size
            /\ \A k \in 1..nV :
                  /\ vc[k].proc = "validate_model"
                  /\ vc[k].i = k - 1
                  /\ Len(vc[k].rows) = batch_size
                  /\ \A r \in 1..Len(vc[k].rows) :
                        /\ vc[k].rows[r] = (k - 1) * batch_size + r - 1
                        /\ vc[k].rows[r] < nV * batch_size
            /\ last.ret = <<mean(Costs(tc)), mean(Costs(vc))>>
            /\ train_errors[Len(train_errors)] = mean(Costs(tc))
            /\ valid_errors[Len(valid_errors)] = mean(Costs(vc))

C5_Witness ==
    /\ last.op = "train"
    /\ n_rows.train = 4 /\ batch_size = 2
    /\ n_rows.valid = 3
    /\ Len(CallsOf(last.calls, "train_model")) = 2
    /\ Len(CallsOf(last.calls, "validate_model")) = 1
    /\ last.calls[1].cost # last.calls[2].cost

\* C10: an invocation of the validate, test or inference procedure leaves
\* every parameter and velocity as it was; a test_error() or output() call
\* leaves the parameters, the velocities, the epoch counter and both
\* histories as they were; a parameter changes only in a train() call.
C10_Frame ==
    /\ [](\A k \in 1..Len(last.calls) :
            last.calls[k].proc # "train_model" =>
                /\ last.calls[k].post_p = last.calls[k].pre_p
                /\ last.calls[k].post_v = last.calls[k].pre_v)
    /\ [][/\ last'.op \in {"test_error", "output"} =>
                UNCHANGED <<params, velocities, epochs, train_errors,
                            valid_errors>>
          /\ last'.op # "train" => IsPrefix(params, params')]_vars

C10_Witness ==
    /\ last.op = "test_error"
    /\ Len(last.calls) > 0
    /\ trainCalls > 0
    /\ \E k \in 1..Len(velocities) : velocities[k] # R(0)
    /\ \E k \in 1..Len(params) : params[k] # Draw(1) /\ params[k] # R(0)

\* the sum of the elements of a row, as the network reads it
RowValue(row) == RSum([c \in 1..Len(row) |-> R(row[c])])

\* C4: output(x) on an x of r <= batch_size rows of n_in columns invokes the
\* inference procedure once, on batch_size rows of which the first r are x's,
\* and returns r rows, the outputs of x's rows in order; the caller's x is as
\* it was.
C4_OutputSize ==
    (/\ last.op = "output"
     /\ Len(last.arg) <= batch_size
     /\ \A j \in 1..Len(last.arg) : Len(last.arg[j]) = n_in) =>
        /\ Len(last.calls) = 1
        /\ Len(last.calls[1].input) = batch_size
        /\ \A j \in 1..Len(last.arg) : last.calls[1].input[j] = last.arg[j]
        /\ Len(last.ret) = Len(last.arg)
        /\ \A j \in 1..Len(last.arg) :
              last.ret[j] = NetOut(params, RowValue(last.arg[j]))
        /\ last.arg_after = last.arg

C4_Witness ==
    /\ last.op = "output"
    /\ batch_size = 2
    /\ last.arg = <<<<2, 1>>>>
    /\ Len(last.ret) = 1
    /\ Len(last.calls[1].input) = 2
    /\ trainCalls > 0

=============================================================================
